---- MODULE Spec2Model ----
(***************************************************************************)
(* Model of leptos-ws-echo: the WebSocket wrapper of src/ws.rs             *)
(* (WebSocketService::connect, the four event listeners, WebSocketTask)    *)
(* and the WebSocketEcho component of src/main.rs that uses it.            *)
(*                                                                         *)
(* The browser's WebSocket object is the environment.  It is modelled by   *)
(* its readyState and by the events it dispatches, following the WHATWG    *)
(* WebSocket interface: open is dispatched once when the handshake         *)
(* completes, a failed connection dispatches error and then close in the   *)
(* same task, messages are dispatched only while the socket is OPEN, and   *)
(* send() throws only while the socket is CONNECTING.                      *)
(*                                                                         *)
(* The event loop is single-threaded and every handler runs to            *)
(* completion, so each handler is one atomic action.                       *)
(***************************************************************************)
EXTENDS Integers, Sequences, FiniteSets, TLC

VARIABLES
    url,            \* the kind of URL connect is called with
    readyState,     \* WebSocket.readyState of the platform socket ("NONE": no socket)
    closePending,   \* the platform dispatched error and owes close in the same task
    ws,             \* the slot holding the WebSocketTask: "None" or "Some"
    clones,         \* number of further live clones of the WebSocketTask
    status,         \* value of the status signal (the notification slot)
    statusLog,      \* every value delivered to the status callback, in order
    data,           \* value of the message signal (the callback slot)
    msgLog,         \* every value delivered to the message callback, in order
    evLog,          \* payload of every message event dispatched to the message listener
    sent,           \* frames the platform accepted for transmission, in order
    connectResult,  \* what connect returned: "none" (not called), "Ok", "CreationError"
    lastOp,         \* the operation that produced the current state, with its outcome
    droppedOpened   \* a WebSocketTask was dropped while the status was Opened

vars == <<url, readyState, closePending, ws, clones, status, statusLog, data,
          msgLog, evLog, sent, connectResult, lastOp, droppedOpened>>

-----------------------------------------------------------------------------
(* Bounds of the model *)

MaxStatusLog == 5   \* status notifications recorded per run
MaxMsgs == 2        \* message events dispatched per run
MaxSent == 2        \* frames accepted for transmission per run
MaxClones == 1      \* further clones of the handle alive at once
MaxBytes == 2       \* length of the binary payloads that are rendered

-----------------------------------------------------------------------------
(* Data types *)

\* enum WebSocketStatus { Opened, Closed, Error(JsValue), Connecting }
Opened == [tag |-> "Opened", detail |-> ""]
Closed == [tag |-> "Closed", detail |-> ""]
Connecting == [tag |-> "Connecting", detail |-> ""]
Error(detail) == [tag |-> "Error", detail |-> detail]

\* enum WebSocketMessage { Text(String), Binary(Vec<u8>) }; the field of the
\* other variant is kept at its empty value so that all values are comparable
Text(t) == [tag |-> "Text", text |-> t, bytes |-> <<>>]
Binary(b) == [tag |-> "Binary", text |-> "", bytes |-> b]

\* MessageEvent.data: a JS string, or an ArrayBuffer (binaryType is
\* "arraybuffer", ws.rs line 209, so the platform never hands out a Blob)
JsString(t) == [kind |-> "string", str |-> t, buf |-> <<>>]
JsArrayBuffer(b) == [kind |-> "arraybuffer", str |-> "", buf |-> b]

\* Option<T>
None == [some |-> FALSE, str |-> "", buf |-> <<>>]
SomeStr(t) == [some |-> TRUE, str |-> t, buf |-> <<>>]
SomeBuf(b) == [some |-> TRUE, str |-> "", buf |-> b]

\* URLs connect is called with: a well-formed URL of a reachable server, a
\* well-formed URL of a server that cannot be reached, a malformed URL
Urls == {"valid", "unreachable", "malformed"}

\* payloads the transport delivers, and payloads a caller sends
TextPayloads == {"", "hi"}
BinaryPayloads == {<<>>, <<10, 255>>}
MessageEvents == {JsString(t) : t \in TextPayloads} \cup {JsArrayBuffer(b) : b \in BinaryPayloads}
SendTexts == {"hi"}
SendBytes == {<<10, 255>>}

\* payloads the display is checked on: texts, and every byte sequence of up
\* to MaxBytes bytes over a few byte values
RenderTexts == {"", "a", "0aff"}
ByteValues == {0, 10, 255}
RenderBytes == UNION {[1..k -> ByteValues] : k \in 0..MaxBytes}
RenderEvents == {JsString(t) : t \in RenderTexts} \cup {JsArrayBuffer(b) : b \in RenderBytes}

\* values rand::random::<u64>() is drawn from in the model
RandValues == {0, 7, 42}

-----------------------------------------------------------------------------
(* Pure helpers *)

Last(s) == s[Len(s)]

\* a callback slot: the signal's value and the record of what was written
Slot(val, log) == [val |-> val, log |-> log]

\* a bug that skips the write when the value is the one the signal holds
update_ws_action_if_changed(slot, update) ==
    IF update = slot.val THEN slot ELSE [val |-> update, log |-> Append(slot.log, update)]

\* fn update_ws_action: signal.update(|x| *x = update)
update_ws_action(slot, update) == [val |-> update, log |-> Append(slot.log, update)]

\* a bug that lets the first WebSocketTask own the listeners, not an Rc
AttachedToStored == ws = "Some"

\* the listeners are shared Rc<EventListener>: they stay attached while any
\* WebSocketTask (the stored one or a clone) is alive
Attached == ws = "Some" \/ clones > 0

-----------------------------------------------------------------------------
(* WebSocketMessage, ws.rs lines 83-103 *)

\* a bug that looks at the text only
is_empty_text_only(msg) == Len(msg.text) = 0

\* WebSocketMessage::is_empty
is_empty(msg) ==
    IF msg.tag = "Text" THEN Len(msg.text) = 0 ELSE Len(msg.bytes) = 0

HexDigit(d) ==
    CASE d = 0 -> "0" [] d = 1 -> "1" [] d = 2 -> "2" [] d = 3 -> "3"
      [] d = 4 -> "4" [] d = 5 -> "5" [] d = 6 -> "6" [] d = 7 -> "7"
      [] d = 8 -> "8" [] d = 9 -> "9" [] d = 10 -> "a" [] d = 11 -> "b"
      [] d = 12 -> "c" [] d = 13 -> "d" [] d = 14 -> "e" [] d = 15 -> "f"

\* a bug that formats with "{:x}": no zero padding
format_x(byte) ==
    IF byte < 16 THEN HexDigit(byte) ELSE HexDigit(byte \div 16) \o HexDigit(byte % 16)

\* format!("{:02x}", byte)
format_02x(byte) == HexDigit(byte \div 16) \o HexDigit(byte % 16)

\* the loop of to_string: out.push_str(..) for the bytes from position i on
RECURSIVE push_bytes(_, _, _)
push_bytes(out, bytes, i) ==
    IF i > Len(bytes) THEN out ELSE push_bytes(out \o format_02x(bytes[i]), bytes, i + 1)

\* WebSocketMessage::to_string
to_string(msg) ==
    IF msg.tag = "Text" THEN msg.text ELSE push_bytes("", msg.bytes, 1)

-----------------------------------------------------------------------------
(* The platform calls of ws.rs *)

\* WebSocket::new(url): the constructor throws (SyntaxError) on a malformed
\* URL or a disallowed scheme; for any well-formed URL, reachable or not, it
\* returns a socket whose readyState is CONNECTING
WebSocket_new(u) == IF u = "malformed" THEN "Err" ELSE "Ok"

\* ws.send_with_str / ws.send_with_u8_array: send() throws InvalidStateError
\* while the socket is CONNECTING and returns normally otherwise
ws_send(rs) == IF rs = "CONNECTING" THEN "Err" ELSE "Ok"

\* the platform puts a frame on the wire only while the socket is OPEN; after
\* the closing handshake started, send() returns normally and discards it
Transmits(rs) == rs = "OPEN"

\* event.data().is_string()
is_string(ev) == ev.kind = "string"

\* event.data().as_string()
as_string(ev) == IF ev.kind = "string" THEN SomeStr(ev.str) ELSE None

\* a bug that copies the bytes back to front
to_vec_reversed(buf) == [i \in 1..Len(buf) |-> buf[Len(buf) + 1 - i]]

\* Uint8Array::new(&bytes).to_vec(): a view over the ArrayBuffer, copied
\* element by element into a Vec<u8>
to_vec(buf) == [i \in 1..Len(buf) |-> buf[i]]

-----------------------------------------------------------------------------
(* Message classification, ws.rs lines 244-282 *)

\* a bug that converts whatever the payload is: Uint8Array::new of a JS string
\* is an empty array
process_binary_lenient(ev, slot) == update_ws_action(slot, Binary(to_vec(ev.buf)))

process_binary(ev, slot) ==
    LET bytes == IF ~is_string(ev) THEN SomeBuf(ev.buf) ELSE None
        conv == IF bytes.some THEN SomeBuf(to_vec(bytes.buf)) ELSE None
    IN  IF conv.some
        THEN update_ws_action(slot, Binary(conv.buf))
        ELSE slot   \* error!("Received binary data, but couldn't convert it to bytes")

\* a bug that logs the text instead of handing it to the callback
process_text_silent(ev, slot) == slot

process_text(ev, slot) ==
    LET text == as_string(ev)
    IN  IF text.some
        THEN update_ws_action(slot, Text(text.str))
        ELSE slot   \* error!("Received text data, but couldn't convert it to a string")

process_both(ev, slot) ==
    LET is_text == is_string(ev)
    IN  IF is_text THEN process_text(ev, slot) ELSE process_binary(ev, slot)

-----------------------------------------------------------------------------
(* The component of main.rs *)

\* a bug that leaves out the Error arm's ws.update
StatusEffectClosedOnly(w, s) == IF s.tag = "Closed" THEN "None" ELSE w

\* the status effect, main.rs lines 26-41: Closed and Error clear the stored
\* handle, Opened and Connecting only log
StatusEffect(w, s) == IF s.tag \in {"Closed", "Error"} THEN "None" ELSE w

\* a bug that leaves out the <Show> around the paragraph
ViewUnguarded(d) == [shown |-> TRUE, text |-> to_string(d)]

\* the display region of the view, main.rs lines 60-62: <Show> renders the
\* paragraph with data.to_string() when the message is not empty, and the
\* empty fallback otherwise
View(d) ==
    IF ~is_empty(d) THEN [shown |-> TRUE, text |-> to_string(d)]
                    ELSE [shown |-> FALSE, text |-> ""]

\* format!("{}", n) of an unsigned integer: its decimal digits
DigitChar(d) ==
    CASE d = 0 -> "0" [] d = 1 -> "1" [] d = 2 -> "2" [] d = 3 -> "3" [] d = 4 -> "4"
      [] d = 5 -> "5" [] d = 6 -> "6" [] d = 7 -> "7" [] d = 8 -> "8" [] d = 9 -> "9"

\* a bug that emits the digits least significant first
RECURSIVE ToDecimalReversed(_)
ToDecimalReversed(n) ==
    IF n < 10 THEN DigitChar(n) ELSE DigitChar(n % 10) \o ToDecimalReversed(n \div 10)

RECURSIVE ToDecimal(_)
ToDecimal(n) == IF n < 10 THEN DigitChar(n) ELSE ToDecimal(n \div 10) \o DigitChar(n % 10)

\* format!("Random string: {}", rand::random::<u64>())
RandomString(r) == "Random string: " \o ToDecimal(r)

\* an outbound frame
TextFrame(t) == [kind |-> "text", text |-> t, bytes |-> <<>>]
BinaryFrame(b) == [kind |-> "binary", text |-> "", bytes |-> b]

Op(op, res) == [op |-> op, res |-> res]

-----------------------------------------------------------------------------
(* Initial state: the signals of main.rs lines 11-13, connect not yet called *)

Init ==
    /\ url \in Urls
    /\ readyState = "NONE"
    /\ closePending = FALSE
    /\ ws = "None"
    /\ clones = 0
    /\ status = Connecting
    /\ statusLog = <<>>
    /\ data = Text("")
    /\ msgLog = <<>>
    /\ evLog = <<>>
    /\ sent = <<>>
    /\ connectResult = "none"
    /\ lastOp = Op("init", "none")
    /\ droppedOpened = FALSE

-----------------------------------------------------------------------------
(* The closures and methods of ws.rs that write the status slot *)

\* listener_open, ws.rs lines 211-213
listener_open(slot) == update_ws_action(slot, Opened)

\* a copy-and-paste bug: the close listener reports Opened
listener_close_pasted(slot) == update_ws_action(slot, Opened)

\* listener_close, ws.rs lines 215-217
listener_close(slot) == update_ws_action(slot, Closed)

\* listener_error, ws.rs lines 219-222; the detail is format!("{:?}", e)
listener_error(slot) == update_ws_action(slot, Error("Event"))

\* a bug that reports a failed send as Closed
send_reports_closed(rs, slot) ==
    IF ws_send(rs) = "Err" THEN update_ws_action(slot, Closed) ELSE slot

\* a bug that discards the result of send_with_str
send_unchecked(rs, slot) == slot

\* WebSocketTask::send, ws.rs lines 286-295: rs is the socket's readyState
send(rs, slot) ==
    LET result == ws_send(rs)
    IN  IF result = "Err" THEN update_ws_action(slot, Error("InvalidStateError")) ELSE slot

\* WebSocketTask::send_binary, ws.rs lines 298-308
send_binary(rs, slot) ==
    LET result == ws_send(rs)
    IN  IF result = "Err" THEN update_ws_action(slot, Error("InvalidStateError")) ELSE slot

\* The status slot after a handler ran.  ui = TRUE: the slot is the status
\* signal of the WebSocketEcho component, whose status effect runs on every
\* write of the signal.
ApplyStatus(n, ui) ==
    /\ status' = n.val
    /\ statusLog' = n.log
    /\ ws' = IF ui /\ n.log # statusLog THEN StatusEffect(ws, n.val) ELSE ws

StatusSlot == Slot(status, statusLog)

\* an idle event loop: no task of the platform is half-way through its events
Idle == ~closePending

-----------------------------------------------------------------------------
(* WebSocketService::connect, ws.rs lines 179-231 (in the component: the    *)
(* connect effect, main.rs lines 15-24, which stores connect(..).ok())      *)

\* a bug that swallows the constructor's exception and goes on to return Ok
connect_common_swallow(u) ==
    [res |-> "Ok", readyState |-> IF WebSocket_new(u) = "Err" THEN "NONE" ELSE "CONNECTING"]

\* connect_common, ws.rs lines 193-231: the `?` returns CreationError when the
\* constructor threw; otherwise the socket (CONNECTING) with its listeners
connect_common(u) ==
    LET made == WebSocket_new(u)
    IN  IF made = "Err"
        THEN [res |-> "CreationError", readyState |-> "NONE"]
        ELSE [res |-> "Ok", readyState |-> "CONNECTING"]

\* a bug that leaves out the Connecting notification of ws.rs line 184
connect_silent(u, slot) ==
    LET cc == connect_common(u)
    IN  [slot |-> slot, res |-> cc.res, readyState |-> cc.readyState,
         task |-> IF cc.res = "Ok" THEN "Some" ELSE "None"]

\* connect, ws.rs lines 179-191: notify Connecting, then build the socket; the
\* result is Ok(WebSocketTask) or the CreationError of connect_common
connect(u, slot) ==
    LET n == update_ws_action(slot, Connecting)
        cc == connect_common(u)
    IN  [slot |-> n, res |-> cc.res, readyState |-> cc.readyState,
         task |-> IF cc.res = "Ok" THEN "Some" ELSE "None"]

\* a bug that makes the connect effect read the status signal: it would run
\* again on every status write, and reconnect once the handle is gone
ConnectTracksStatus ==
    /\ connectResult = "none" \/ (status.tag \in {"Closed", "Error"} /\ ws = "None")
    /\ Idle
    /\ LET c == connect(url, StatusSlot)
       IN  /\ status' = c.slot.val
           /\ statusLog' = c.slot.log
           /\ connectResult' = c.res
           /\ ws' = c.task
           /\ readyState' = c.readyState
           /\ lastOp' = Op("connect", c.res)
    /\ UNCHANGED <<url, closePending, clones, data, msgLog, evLog, sent, droppedOpened>>

\* the caller (in the component: the connect effect, main.rs lines 15-24)
\* calls connect once and stores the handle it returns, if any
Connect ==
    /\ connectResult = "none"
    /\ Idle
    /\ LET c == connect(url, StatusSlot)
       IN  /\ status' = c.slot.val
           /\ statusLog' = c.slot.log
           /\ connectResult' = c.res
           /\ ws' = c.task
           /\ readyState' = c.readyState
           /\ lastOp' = Op("connect", c.res)
    /\ UNCHANGED <<url, closePending, clones, data, msgLog, evLog, sent, droppedOpened>>

-----------------------------------------------------------------------------
(* The platform dispatching the socket's events to the four listeners *)

\* open: the handshake completed
OnOpen(ui) ==
    /\ readyState = "CONNECTING"
    /\ url = "valid"
    /\ Idle
    /\ readyState' = "OPEN"
    /\ IF Attached
       THEN /\ Len(statusLog) < MaxStatusLog
            /\ ApplyStatus(listener_open(StatusSlot), ui)
            /\ lastOp' = Op("open", "delivered")
       ELSE /\ UNCHANGED <<status, statusLog, ws>>
            /\ lastOp' = Op("open", "no listener")
    /\ UNCHANGED <<url, closePending, clones, data, msgLog, evLog, sent,
                   connectResult, droppedOpened>>

\* error: the connection failed; the platform closes the socket and dispatches
\* error, with close to follow in the same task
OnError(ui) ==
    /\ readyState \in {"CONNECTING", "OPEN"}
    /\ Idle
    /\ readyState' = "CLOSED"
    /\ closePending' = TRUE
    /\ IF Attached
       THEN /\ Len(statusLog) < MaxStatusLog
            /\ ApplyStatus(listener_error(StatusSlot), ui)
            /\ lastOp' = Op("error", "delivered")
       ELSE /\ UNCHANGED <<status, statusLog, ws>>
            /\ lastOp' = Op("error", "no listener")
    /\ UNCHANGED <<url, clones, data, msgLog, evLog, sent, connectResult, droppedOpened>>

\* close: the close that follows an error, or a closing handshake completing
OnClose(ui) ==
    /\ closePending \/ readyState \in {"OPEN", "CLOSING"}
    /\ readyState' = "CLOSED"
    /\ closePending' = FALSE
    /\ IF Attached
       THEN /\ Len(statusLog) < MaxStatusLog
            /\ ApplyStatus(listener_close(StatusSlot), ui)
            /\ lastOp' = Op("close", "delivered")
       ELSE /\ UNCHANGED <<status, statusLog, ws>>
            /\ lastOp' = Op("close", "no listener")
    /\ UNCHANGED <<url, clones, data, msgLog, evLog, sent, connectResult, droppedOpened>>

\* a bug that hands the message listener the notification slot as well and
\* reports Opened on every message
OnMessageMarksOpened(ev) ==
    /\ readyState = "OPEN"
    /\ Idle
    /\ Attached
    /\ Len(evLog) < MaxMsgs
    /\ Len(statusLog) < MaxStatusLog
    /\ LET n == process_both(ev, Slot(data, msgLog))
       IN  /\ data' = n.val
           /\ msgLog' = n.log
    /\ evLog' = Append(evLog, ev)
    /\ ApplyStatus(update_ws_action(StatusSlot, Opened), FALSE)
    /\ lastOp' = Op("message", "delivered")
    /\ UNCHANGED <<url, readyState, closePending, clones, sent, connectResult,
                   droppedOpened>>

\* message: the message listener, ws.rs lines 186-189
OnMessage(ev) ==
    /\ readyState = "OPEN"
    /\ Idle
    /\ Attached
    /\ Len(evLog) < MaxMsgs
    /\ LET n == process_both(ev, Slot(data, msgLog))
       IN  /\ data' = n.val
           /\ msgLog' = n.log
    /\ evLog' = Append(evLog, ev)
    /\ lastOp' = Op("message", "delivered")
    /\ UNCHANGED <<url, readyState, closePending, ws, clones, status, statusLog,
                   sent, connectResult, droppedOpened>>

\* the platform collects a socket no handle refers to and starts its closing
\* handshake; when, and whether, this happens is up to the garbage collector
GcClose ==
    /\ ~Attached
    /\ Idle
    /\ readyState \in {"CONNECTING", "OPEN"}
    /\ readyState' = "CLOSING"
    /\ lastOp' = Op("gc", "closing")
    /\ UNCHANGED <<url, closePending, ws, clones, status, statusLog, data, msgLog,
                   evLog, sent, connectResult, droppedOpened>>

-----------------------------------------------------------------------------
(* The caller's operations on a WebSocketTask *)

\* task.send(text) on any live handle
Send(t, ui) ==
    /\ Attached
    /\ Idle
    /\ Len(sent) < MaxSent
    /\ Len(statusLog) < MaxStatusLog
    /\ sent' = IF Transmits(readyState) THEN Append(sent, TextFrame(t)) ELSE sent
    /\ ApplyStatus(send(readyState, StatusSlot), ui)
    /\ lastOp' = Op("send", ws_send(readyState))
    /\ UNCHANGED <<url, readyState, closePending, clones, data, msgLog, evLog,
                   connectResult, droppedOpened>>

\* task.send_binary(bytes) on any live handle
SendBinary(b, ui) ==
    /\ Attached
    /\ Idle
    /\ Len(sent) < MaxSent
    /\ Len(statusLog) < MaxStatusLog
    /\ sent' = IF Transmits(readyState) THEN Append(sent, BinaryFrame(b)) ELSE sent
    /\ ApplyStatus(send_binary(readyState, StatusSlot), ui)
    /\ lastOp' = Op("send_binary", ws_send(readyState))
    /\ UNCHANGED <<url, readyState, closePending, clones, data, msgLog, evLog,
                   connectResult, droppedOpened>>

\* #[derive(Clone)] on WebSocketTask, ws.rs line 123: one more owner of the
\* socket reference and of the four Rc<EventListener>
CloneTask ==
    /\ Attached
    /\ Idle
    /\ clones < MaxClones
    /\ clones' = clones + 1
    /\ lastOp' = Op("clone", "unit")
    /\ UNCHANGED <<url, readyState, closePending, ws, status, statusLog, data,
                   msgLog, evLog, sent, connectResult, droppedOpened>>

\* the caller drops the stored WebSocketTask.  The struct has no Drop impl and
\* close() is never called: its fields are dropped, i.e. the socket reference
\* is released and each Rc<EventListener> loses one owner
DropTask ==
    /\ ws = "Some"
    /\ Idle
    /\ ws' = "None"
    /\ lastOp' = Op("drop", status.tag)
    /\ droppedOpened' = (droppedOpened \/ status.tag = "Opened")
    /\ UNCHANGED <<url, readyState, closePending, clones, status, statusLog, data,
                   msgLog, evLog, sent, connectResult>>

\* the caller drops a clone
DropClone ==
    /\ clones > 0
    /\ Idle
    /\ clones' = clones - 1
    /\ lastOp' = Op("drop", status.tag)
    /\ droppedOpened' = (droppedOpened \/ status.tag = "Opened")
    /\ UNCHANGED <<url, readyState, closePending, ws, status, statusLog, data,
                   msgLog, evLog, sent, connectResult>>

\* echo_random_string, main.rs lines 51-55: the button's click handler
Click(r) ==
    /\ connectResult # "none"   \* the component is mounted
    /\ Idle
    /\ IF ws = "Some"
       THEN /\ Len(sent) < MaxSent
            /\ Len(statusLog) < MaxStatusLog
            /\ sent' = IF Transmits(readyState)
                       THEN Append(sent, TextFrame(RandomString(r))) ELSE sent
            /\ ApplyStatus(send(readyState, StatusSlot), TRUE)
            /\ lastOp' = Op("click", ws_send(readyState))
       ELSE /\ UNCHANGED <<sent, status, statusLog, ws>>
            /\ lastOp' = Op("click", "no handle")
    /\ UNCHANGED <<url, readyState, closePending, clones, data, msgLog, evLog,
                   connectResult, droppedOpened>>

-----------------------------------------------------------------------------
(* Spec: the wrapper of ws.rs under an arbitrary caller, which may send text *)
(* or bytes, clone the handle and drop handles at any time.                  *)

Next ==
    \/ Connect
    \/ OnOpen(FALSE)
    \/ OnError(FALSE)
    \/ OnClose(FALSE)
    \/ \E ev \in MessageEvents : OnMessage(ev)
    \/ GcClose
    \/ \E t \in SendTexts : Send(t, FALSE)
    \/ \E b \in SendBytes : SendBinary(b, FALSE)
    \/ CloneTask
    \/ DropTask
    \/ DropClone

Spec == Init /\ [][Next]_vars

(* SpecUI: the WebSocketEcho component of main.rs: connect on mount, the    *)
(* status effect on every status write, a send on every click.              *)

NextUI ==
    \/ Connect
    \/ OnOpen(TRUE)
    \/ OnError(TRUE)
    \/ OnClose(TRUE)
    \/ \E ev \in MessageEvents : OnMessage(ev)
    \/ GcClose
    \/ \E r \in RandValues : Click(r)

SpecUI == Init /\ [][NextUI]_vars

(* SpecProcess: process_text and process_binary applied on their own to     *)
(* every kind of payload.  In the program only process_both calls them,     *)
(* with a payload of the matching kind.                                     *)

ProcessText(ev) ==
    /\ Len(evLog) < MaxMsgs
    /\ LET n == process_text(ev, Slot(data, msgLog))
       IN  /\ data' = n.val
           /\ msgLog' = n.log
    /\ evLog' = Append(evLog, ev)
    /\ lastOp' = Op("process_text", "unit")
    /\ UNCHANGED <<url, readyState, closePending, ws, clones, status, statusLog,
                   sent, connectResult, droppedOpened>>

ProcessBinary(ev) ==
    /\ Len(evLog) < MaxMsgs
    /\ LET n == process_binary(ev, Slot(data, msgLog))
       IN  /\ data' = n.val
           /\ msgLog' = n.log
    /\ evLog' = Append(evLog, ev)
    /\ lastOp' = Op("process_binary", "unit")
    /\ UNCHANGED <<url, readyState, closePending, ws, clones, status, statusLog,
                   sent, connectResult, droppedOpened>>

NextProcess ==
    \/ \E ev \in MessageEvents : ProcessText(ev)
    \/ \E ev \in MessageEvents : ProcessBinary(ev)

SpecProcess == Init /\ [][NextProcess]_vars

(* SpecRender: the mounted component on an open connection receiving the   *)
(* payloads of RenderEvents.                                                *)

NextRender ==
    \/ Connect
    \/ OnOpen(TRUE)
    \/ \E ev \in RenderEvents : OnMessage(ev)

SpecRender == Init /\ [][NextRender]_vars

(* SpecEcho: the scenario of a reachable echo server.  The caller connects,  *)
(* keeps the handle and sends once the status is Opened; the server returns *)
(* every frame it receives, unmodified and in order.  The event loop        *)
(* dispatches every event that is due, hence the weak fairness of the open  *)
(* and message events.  (The echoes wait on MaxMsgs, the sends on MaxSent.) *)

\* frames the caller sends in this scenario
EchoTexts == {RandomString(r) : r \in RandValues} \cup SendTexts

\* the message event the echo server answers a frame with
EchoOf(frame) ==
    IF frame.kind = "text" THEN JsString(frame.text) ELSE JsArrayBuffer(frame.bytes)

\* the echo of the oldest frame not yet echoed arrives
EchoMessage ==
    /\ Len(evLog) < Len(sent)
    /\ OnMessage(EchoOf(sent[Len(evLog) + 1]))

InitEcho == Init /\ url = "valid"

NextEcho ==
    \/ Connect
    \/ OnOpen(FALSE)
    \/ \E t \in EchoTexts : status = Opened /\ Send(t, FALSE)
    \/ \E b \in SendBytes : status = Opened /\ SendBinary(b, FALSE)
    \/ EchoMessage

SpecEcho ==
    /\ InitEcho
    /\ [][NextEcho]_vars
    /\ WF_vars(OnOpen(FALSE))
    /\ WF_vars(EchoMessage)

TypeOK ==
    /\ url \in Urls
    /\ readyState \in {"NONE", "CONNECTING", "OPEN", "CLOSING", "CLOSED"}
    /\ closePending \in BOOLEAN
    /\ ws \in {"None", "Some"}
    /\ clones \in 0..MaxClones
    /\ status.tag \in {"Opened", "Closed", "Error", "Connecting"}
    /\ Len(statusLog) <= MaxStatusLog
    /\ data.tag \in {"Text", "Binary"}
    /\ Len(msgLog) <= MaxMsgs
    /\ Len(evLog) <= MaxMsgs
    /\ Len(sent) <= MaxSent
    /\ connectResult \in {"none", "Ok", "CreationError"}
    /\ droppedOpened \in BOOLEAN

-----------------------------------------------------------------------------
(* Properties *)

\* consecutive status deliveries, as pairs of tags
Tags(log) == [i \in 1..Len(log) |-> log[i].tag]
StepsOf(log) == {<<log[i].tag, log[i + 1].tag>> : i \in 1..(Len(log) - 1)}

SpecTransitions ==
    {<<"Connecting", "Opened">>, <<"Connecting", "Error">>,
     <<"Opened", "Closed">>, <<"Opened", "Error">>}

\* C1 as stated: the statuses delivered for a handle follow only
\* Connecting->Opened, Connecting->Error, Opened->Closed, Opened->Error, and
\* after Closed or Error no different status is delivered.
C1_Original ==
    \A p \in StepsOf(statusLog) :
        \/ p \in SpecTransitions
        \/ p[1] \in {"Closed", "Error"} /\ p[2] = p[1]

\* C1 (amended): the wrapper forwards every event, so the statuses delivered
\* follow Connecting->Opened, Connecting->Error, Opened->Closed, Opened->Error
\* and also Error->Closed, Error->Opened and Error->Error; Closed is the only
\* terminal status: nothing is delivered after it.
C1_Transitions ==
    /\ \A p \in StepsOf(statusLog) :
          p \in SpecTransitions \cup
                {<<"Error", "Closed">>, <<"Error", "Opened">>, <<"Error", "Error">>}
    /\ \A i \in 1..Len(statusLog) : statusLog[i].tag = "Closed" => i = Len(statusLog)
    /\ Len(statusLog) >= 1 => statusLog[1] = Connecting /\ status = Last(statusLog)

\* a failed connection: error, then close, both delivered to the same handle
C1_Witness ==
    Tags(statusLog) = <<"Connecting", "Opened", "Error", "Closed">>

\* C2: for every valid URL, once connect has returned the first status
\* delivered is Connecting, and it precedes every open, close, error and
\* message event delivered for that socket.
C2_ConnectingFirst ==
    /\ (connectResult # "none" /\ url # "malformed") =>
          /\ connectResult = "Ok"
          /\ Len(statusLog) >= 1
          /\ statusLog[1] = Connecting
    /\ (Len(statusLog) >= 1 \/ Len(msgLog) >= 1 \/ readyState \notin {"NONE", "CONNECTING"}) =>
          /\ Len(statusLog) >= 1
          /\ statusLog[1] = Connecting
    /\ (connectResult = "Ok" /\ lastOp.op = "connect") =>
          /\ status = Connecting
          /\ statusLog = <<Connecting>>
          /\ ws = "Some"

\* connect returned a handle and an event was delivered after Connecting
C2_Witness ==
    /\ url = "valid"
    /\ connectResult = "Ok"
    /\ Len(statusLog) = 2
    /\ statusLog[2] = Opened
    /\ Len(msgLog) = 1

\* C3 as stated: with an unreachable or malformed URL connect returns
\* CreationError and produces no handle.
C3_Original ==
    (connectResult # "none" /\ url \in {"unreachable", "malformed"}) =>
        /\ connectResult = "CreationError"
        /\ (lastOp.op = "connect" => ws = "None")

\* C3 (amended): connect returns CreationError, produces no handle, no socket
\* and no listener exactly when the URL is malformed (socket construction
\* throws); with a well-formed URL of an unreachable server it returns a
\* handle on a connecting socket, which never opens.
C3_CreationError ==
    /\ connectResult # "none" => (connectResult = "CreationError" <=> url = "malformed")
    /\ connectResult = "CreationError" =>
          /\ ws = "None"
          /\ ~Attached
          /\ readyState = "NONE"
          /\ statusLog = <<Connecting>>
          /\ msgLog = <<>>
    /\ lastOp = Op("connect", "Ok") => ws = "Some" /\ readyState = "CONNECTING"
    /\ url = "unreachable" => \A i \in 1..Len(statusLog) : statusLog[i].tag # "Opened"

C3_Witness ==
    /\ url = "malformed"
    /\ connectResult = "CreationError"
    /\ lastOp = Op("connect", "CreationError")

\* C4 as stated: when a handle is dropped while the status is Opened, the
\* underlying connection closes, and from then on no status or message
\* callback fires.
C4_Original ==
    [][ /\ (lastOp'.op = "drop" /\ status.tag = "Opened")
            => readyState' \in {"CLOSING", "CLOSED"}
        /\ droppedOpened => statusLog' = statusLog /\ msgLog' = msgLog ]_vars

\* C5: a send or send_binary whose platform call fails delivers Error to the
\* status callback exactly once and nothing else; one whose platform call
\* succeeds delivers nothing and leaves the status as it was.
C5_SendReportsFailure ==
    [][ lastOp'.op \in {"send", "send_binary"} =>
          IF readyState = "CONNECTING"
          THEN /\ lastOp'.res = "Err"
               /\ statusLog' = Append(statusLog, Error("InvalidStateError"))
               /\ status' = Error("InvalidStateError")
               /\ sent' = sent
          ELSE /\ lastOp'.res = "Ok"
               /\ statusLog' = statusLog
               /\ status' = status ]_vars

\* a send failed on a connecting socket and was reported once
C5_Witness ==
    /\ lastOp = Op("send", "Err")
    /\ statusLog = <<Connecting, Error("InvalidStateError")>>

\* the message a payload must be delivered as
Classified(ev) == IF ev.kind = "string" THEN Text(ev.str) ELSE Binary(ev.buf)

\* C6: a message event with string payload T delivers exactly Text(T), one
\* with a non-string payload B delivers exactly Binary(B), bytes unchanged.
C6_Classification ==
    [][ evLog' # evLog =>
          LET ev == Last(evLog')
          IN  /\ evLog' = Append(evLog, ev)
              /\ msgLog' = Append(msgLog, Classified(ev))
              /\ data' = Classified(ev)
              /\ (ev.kind = "string" => data'.tag = "Text" /\ data'.text = ev.str)
              /\ (ev.kind # "string" =>
                    /\ data'.tag = "Binary"
                    /\ Len(data'.bytes) = Len(ev.buf)
                    /\ \A i \in 1..Len(ev.buf) : data'.bytes[i] = ev.buf[i]) ]_vars

\* a binary payload of two different bytes was delivered
C6_Witness ==
    /\ lastOp.op = "message"
    /\ Last(evLog) = JsArrayBuffer(<<10, 255>>)
    /\ data = Binary(<<10, 255>>)

\* C7: the values delivered to the message callback are the payloads of the
\* message events dispatched for the connection, in the same order, none
\* lost, duplicated or reordered; the last-message state is the latest one.
C7_Fifo ==
    /\ Len(msgLog) = Len(evLog)
    /\ \A i \in 1..Len(evLog) : msgLog[i] = Classified(evLog[i])
    /\ data = IF msgLog = <<>> THEN Text("") ELSE Last(msgLog)

\* two different messages were delivered, the second after the first
C7_Witness ==
    /\ evLog = <<JsString("hi"), JsArrayBuffer(<<10, 255>>)>>
    /\ msgLog = <<Text("hi"), Binary(<<10, 255>>)>>
    /\ data = Binary(<<10, 255>>)

\* C8: process_binary on a payload that is not binary, and process_text on a
\* payload that is not a string, drop the message: the message callback is
\* not invoked, and the last-message state and the status stay as they were.
C8_MalformedDropped ==
    [][ /\ evLog' # evLog
        /\ \/ lastOp'.op = "process_binary" /\ Last(evLog').kind = "string"
           \/ lastOp'.op = "process_text" /\ Last(evLog').kind # "string"
        => /\ msgLog' = msgLog
           /\ data' = data
           /\ status' = status
           /\ statusLog' = statusLog ]_vars

\* a string handed to process_binary after a binary message was delivered
C8_Witness ==
    /\ lastOp.op = "process_binary"
    /\ evLog = <<JsArrayBuffer(<<10, 255>>), JsString("hi")>>
    /\ msgLog = <<Binary(<<10, 255>>)>>
    /\ data = Binary(<<10, 255>>)

\* C9 as stated: while no open, error or close event fires the status stays
\* Connecting; no other operation (a click, a send) moves it out of Connecting.
C9_Original ==
    [][ (status.tag = "Connecting" /\ lastOp'.op \notin {"open", "error", "close"})
          => status'.tag = "Connecting" ]_vars

\* C9 (amended): there is no timeout: the status leaves Connecting only by a
\* delivered open or error event, or by a click whose send fails because the
\* socket is still connecting, which sets it to Error; every click made
\* while the component holds the handle of a connecting socket does so.
C9_StalledConnecting ==
    [][ /\ (status.tag = "Connecting" /\ status'.tag # "Connecting") =>
              \/ lastOp' = Op("open", "delivered") /\ status' = Opened
              \/ lastOp' = Op("error", "delivered") /\ status'.tag = "Error"
              \/ /\ lastOp' = Op("click", "Err")
                 /\ readyState = "CONNECTING"
                 /\ status' = Error("InvalidStateError")
        /\ (lastOp'.op = "click" /\ ws = "Some" /\ readyState = "CONNECTING") =>
              /\ status'.tag = "Error"
              /\ ws' = "None" ]_vars

\* a click on the connecting component ended the Connecting state
C9_Witness ==
    /\ lastOp = Op("click", "Err")
    /\ readyState = "CONNECTING"
    /\ statusLog = <<Connecting, Error("InvalidStateError")>>
    /\ ws = "None"

\* the text frames a click may send, for the random values of the model
ClickTexts == {"Random string: 0", "Random string: 7", "Random string: 42"}

\* C10 as stated: every click triggers exactly one outbound text frame, in
\* every state of the component.
C10_Original ==
    [][ lastOp'.op = "click" =>
          /\ Len(sent') = Len(sent) + 1
          /\ Last(sent').kind = "text"
          /\ Last(sent').text \in ClickTexts ]_vars

\* C10 (amended): a click made while the component holds a handle whose
\* socket is open triggers exactly one outbound text frame, the fixed prefix
\* followed by the random integer in decimal; a click made while the socket
\* is still connecting, or while the component holds no handle (connect
\* failed, or the status became Closed or Error), sends no frame.
C10_ClickSends ==
    [][ lastOp'.op = "click" =>
          IF ws = "Some" /\ readyState = "OPEN"
          THEN /\ Len(sent') = Len(sent) + 1
               /\ sent' = Append(sent, Last(sent'))
               /\ Last(sent').kind = "text"
               /\ Last(sent').text \in ClickTexts
               /\ lastOp'.res = "Ok"
          ELSE /\ sent' = sent
               /\ lastOp'.res \in {"Err", "no handle"}
               /\ (ws = "None" <=> lastOp'.res = "no handle") ]_vars

\* one click on the open component sent one frame, a later click without a
\* handle sent none
C10_Witness ==
    /\ lastOp = Op("click", "no handle")
    /\ sent = <<TextFrame("Random string: 42")>>
    /\ status.tag = "Closed"

\* C11: the component calls connect exactly once, on mount; once the status
\* is Closed or Error the stored handle is cleared, it stays absent for
\* ever, and no new socket is created, whatever events or clicks follow.
C11_NoReconnect ==
    [][ /\ lastOp'.op = "connect" => (connectResult = "none" /\ lastOp.op = "init")
        /\ connectResult # "none" => connectResult' = connectResult
        /\ status'.tag \in {"Closed", "Error"} => ws' = "None"
        /\ (connectResult # "none" /\ ws = "None") => ws' = "None"
        /\ (readyState # "NONE" /\ readyState # "CONNECTING") => readyState' # "CONNECTING"
        /\ (connectResult # "none" /\ readyState = "NONE") => readyState' = "NONE" ]_vars

\* the connection failed and was closed, the handle is gone, and a later
\* click found no handle
C11_Witness ==
    /\ connectResult = "Ok"
    /\ Tags(statusLog) = <<"Connecting", "Opened", "Error">>
    /\ readyState = "CLOSED"
    /\ ~closePending
    /\ ws = "None"
    /\ lastOp = Op("click", "no handle")

\* C16: in the component the status is Opened only while the handle is held,
\* and a status of Closed or Error means the handle is absent.
C16_StatusAndHandle ==
    /\ status = Opened => (ws = "Some" /\ readyState = "OPEN")
    /\ status.tag \in {"Closed", "Error"} => ws = "None"
    /\ ws = "Some" => (readyState \in {"CONNECTING", "OPEN"} /\ status.tag \in {"Connecting", "Opened"})

\* a click on the open component reached send and the frame went out
C16_Witness ==
    /\ status = Opened
    /\ ws = "Some"
    /\ lastOp = Op("click", "Ok")
    /\ Len(sent) = 2

\* C17: when connect fails with CreationError the status callback has been
\* invoked with Connecting and with nothing else; the component discards the
\* error, so the handle stays absent, the status stays Connecting, and a
\* later click sends nothing and changes no state.
C17_CreationErrorInComponent ==
    [][ /\ connectResult' = "CreationError" =>
              /\ statusLog' = <<Connecting>>
              /\ status' = Connecting
              /\ ws' = "None"
              /\ readyState' = "NONE"
              /\ sent' = <<>>
              /\ msgLog' = <<>>
        /\ (connectResult = "CreationError" /\ lastOp'.op = "click") =>
              /\ lastOp'.res = "no handle"
              /\ UNCHANGED <<url, readyState, closePending, ws, clones, status, statusLog,
                             data, msgLog, evLog, sent, connectResult, droppedOpened>> ]_vars

\* a click on the component whose connect failed
C17_Witness ==
    /\ connectResult = "CreationError"
    /\ lastOp = Op("click", "no handle")
    /\ statusLog = <<Connecting>>
    /\ ws = "None"

\* what the display region must show for the messages of MessageEvents
ExpectedShown(m) ==
    CASE m = Text("hi") -> "hi"
      [] m = Binary(<<10, 255>>) -> "0aff"
      [] OTHER -> "?"

\* C13: the display region shows the most recent message, text verbatim and
\* binary as lowercase hex pairs, when it is not empty, and nothing when it
\* is empty; nothing is shown before the first message, and an empty message
\* after a non-empty one hides the region again.
C13_Display ==
    LET v == View(data)
    IN  /\ msgLog = <<>> => ~v.shown
        /\ msgLog # <<>> =>
              LET m == Last(msgLog)
              IN  IF m \in {Text(""), Binary(<<>>)}
                  THEN ~v.shown
                  ELSE v.shown /\ v.text = ExpectedShown(m) /\ v.text # "?"

\* an empty binary message arrived after a text and the region is hidden
C13_Witness ==
    /\ msgLog = <<Text("hi"), Binary(<<>>)>>
    /\ ~View(data).shown

\* C14: is_empty is true exactly for Text("") and Binary([]); a text of
\* length >= 1 or a payload of at least one byte is not empty.
C14_IsEmpty ==
    \A m \in {data} \cup {msgLog[i] : i \in 1..Len(msgLog)} :
        /\ is_empty(m) <=> m \in {Text(""), Binary(<<>>)}
        /\ (m.tag = "Text" /\ m.text \in {"a", "0aff"}) => ~is_empty(m)
        /\ (m.tag = "Binary" /\ Len(m.bytes) >= 1) => ~is_empty(m)

\* an empty binary message and a one-character text were both received
C14_Witness ==
    /\ msgLog = <<Binary(<<>>), Text("a")>>
    /\ is_empty(msgLog[1])
    /\ ~is_empty(data)

\* the two hexadecimal digits of the byte values of the model
HexPair(b) == CASE b = 0 -> "00" [] b = 10 -> "0a" [] b = 255 -> "ff" [] OTHER -> "??"

\* C15: to_string renders Text(T) as T and Binary(B) as the two-digit
\* lowercase hexadecimal forms of its bytes, concatenated in byte order: the
\* result has length 2 * len(B), and Binary([0x0a, 0xff]) renders as "0aff".
C15_ToString ==
    /\ data.tag = "Text" => to_string(data) = data.text
    /\ data.tag = "Binary" =>
          /\ Len(to_string(data)) = 2 * Len(data.bytes)
          /\ Len(data.bytes) = 0 => to_string(data) = ""
          /\ Len(data.bytes) = 1 => to_string(data) = HexPair(data.bytes[1])
          /\ Len(data.bytes) = 2 =>
                to_string(data) = HexPair(data.bytes[1]) \o HexPair(data.bytes[2])
          /\ Len(data.bytes) = 3 =>
                to_string(data) = HexPair(data.bytes[1]) \o HexPair(data.bytes[2])
                                    \o HexPair(data.bytes[3])
    /\ data = Binary(<<10, 255>>) => to_string(data) = "0aff"

\* the bytes 0x0a, 0xff were received and render as "0aff"
C15_Witness ==
    /\ data = Binary(<<10, 255>>)
    /\ to_string(data) = "0aff"
    /\ lastOp.op = "message"

\* C12: against a reachable server that echoes every frame, connect is
\* eventually followed by the status Opened, and the k-th frame, a text T sent
\* while Opened, is eventually followed by the message callback firing with
\* Text(T) as its k-th message, which makes the last-message state Text(T).
C12_Echo ==
    /\ (connectResult = "Ok") ~> (status = Opened)
    /\ \A k \in 1..MaxSent : \A t \in EchoTexts :
          (Len(sent) = k /\ sent[k] = TextFrame(t) /\ lastOp = Op("send", "Ok"))
             ~> (Len(msgLog) = k /\ msgLog[k] = Text(t) /\ data = Text(t))

\* the echo of "Random string: 42" arrived as the second message
C12_Witness ==
    /\ status = Opened
    /\ sent = <<BinaryFrame(<<10, 255>>), TextFrame("Random string: 42")>>
    /\ msgLog = <<Binary(<<10, 255>>), Text("Random string: 42")>>
    /\ data = Text("Random string: 42")
    /\ lastOp.op = "message"

\* C18: the clones of a handle share the four listeners: while at least one
\* clone is alive every open, close and error event is delivered to the
\* status callback, also after the stored handle was dropped; a callback
\* fires only while a clone is alive, so the listeners go with the last one.
C18_SharedListeners ==
    [][ /\ (lastOp'.op \in {"open", "error", "close"} /\ (ws = "Some" \/ clones > 0)) =>
              /\ lastOp'.res = "delivered"
              /\ Len(statusLog') = Len(statusLog) + 1
        /\ (lastOp'.op \in {"open", "error", "close"} /\ ws = "None" /\ clones = 0) =>
              /\ lastOp'.res = "no listener"
              /\ statusLog' = statusLog
        /\ (lastOp'.op \in {"open", "error", "close", "message"}
              /\ (statusLog' # statusLog \/ msgLog' # msgLog)) =>
              (ws = "Some" \/ clones > 0)
        /\ (lastOp'.op = "drop" /\ (ws' = "Some" \/ clones' > 0)
              /\ readyState = "OPEN" /\ Len(evLog) < MaxMsgs) =>
              (ENABLED (\E ev \in MessageEvents : OnMessage(ev)))'
        /\ (lastOp'.op = "drop" /\ ws' = "None" /\ clones' = 0) =>
              ~(ENABLED (\E ev \in MessageEvents : OnMessage(ev)))' ]_vars

\* the stored handle was dropped, a clone was kept, and a message and the
\* close event were still delivered
C18_Witness ==
    /\ ws = "None"
    /\ clones = 1
    /\ droppedOpened
    /\ Tags(statusLog) = <<"Connecting", "Opened", "Closed">>
    /\ Len(msgLog) = 1
    /\ lastOp = Op("close", "delivered")

\* C19: the two callback slots are independent: a message event changes only
\* the last-message state and leaves the status alone; an open, close or
\* error event and a send, failed or not, leave the last-message state alone.
C19_IndependentSlots ==
    [][ /\ lastOp'.op = "message" =>
              /\ status' = status
              /\ statusLog' = statusLog
              /\ Len(msgLog') = Len(msgLog) + 1
              /\ data' = Last(msgLog')
        /\ lastOp'.op \in {"open", "error", "close", "send", "send_binary"} =>
              /\ data' = data
              /\ msgLog' = msgLog
        /\ (lastOp'.op \in {"send", "send_binary"} /\ lastOp'.res = "Err") =>
              /\ status'.tag = "Error"
              /\ Len(statusLog') = Len(statusLog) + 1 ]_vars

\* a message arrived after a failed send and the status is still Error
C19_Witness ==
    /\ Tags(statusLog) = <<"Connecting", "Error", "Opened">>
    /\ lastOp.op = "message"
    /\ data = Text("hi")
    /\ status = Opened
    /\ sent = <<>>

====
